---- MODULE Spec2Model ----
(***************************************************************************)
(* ResumeMash: the per-field text classifier (ml_model.py) and the swipe   *)
(* handler that retrains it (app.py).                                      *)
(*                                                                         *)
(* Requests are served by NProc worker threads (Flask's development server *)
(* is threaded).  Every SQL statement and every file-system call is one    *)
(* atomic step; the steps of different requests interleave freely.         *)
(*                                                                         *)
(* A job_field is a sequence of one-character strings, so that the         *)
(* character replacement of _model_path is computed, not assumed.          *)
(*                                                                         *)
(* A model file is a sequence of chunks.  pickle.dump writes the bundle    *)
(* {"vectorizer": .., "model": ..} through a buffered file object, the     *)
(* vectorizer first and the classifier second: one chunk per entry.        *)
(* pickle.load reads the chunks back in the same order.                    *)
(*                                                                         *)
(* Spec is the classifier with the swipe handler; SeqSpec serves its       *)
(* requests one at a time; FaultSpec adds a disk that can fill up during a *)
(* save; WebSpec is the candidates' pages (/upload, /uploads/<filename>,   *)
(* /feedback) beside train_model calls; RenderSpec is the page /feedback   *)
(* renders for every value score_text can return.  A probability is an     *)
(* integer number of thousandths.                                          *)
(***************************************************************************)
EXTENDS Integers, Sequences, FiniteSets, TLC

VARIABLES
    resumes,    \* table resumes: id -> [user_id, filename, text, job_field]
    swipes,     \* table swipes: sequence of [resume_id, user_id, label]
    session,    \* recruiter -> [swipe_field, swipe_order]
    files,      \* path -> [exists, content]: content is a sequence of chunks
    pc,         \* worker -> the statement the worker is at
    handler,    \* worker -> the entry point of the request it serves
    job_field,  \* worker -> local job_field
    user_id,    \* worker -> local recruiter_id (swipe)
    resume_id,  \* worker -> local resume_id (swipe)
    label,      \* worker -> local label (swipe)
    text,       \* worker -> local text (score_text)
    rows,       \* worker -> local rows (train_model)
    bundle,     \* worker -> local bundle (train_model, score_text)
    pos,        \* worker -> offset of its open file object, in chunks
    buf,        \* worker -> chunks pickle.load has read so far, or chunks
                \* pickle.dump has handed to the file object, yet to be written
    ret,        \* worker -> what the last train_model / score_text returned
    saved,      \* history: job_field -> [n, last, rows, ret], the train_model
                \* calls for the field that returned after saving (n capped at
                \* 2), and the bundle, examples and return value of the last
    started,    \* the number of requests the workers have accepted
    filename,   \* worker -> local filename (upload, uploaded_file)
    uploads,    \* the uploads folder: filename -> the user whose upload the
                \* file's content is (0: no such file)
    response,   \* worker -> what its last /feedback or /uploads request sent
    superseded  \* history: worker -> a train_model call has saved for the
                \* worker's job_field since its score_text call began

vars == <<resumes, swipes, session, files, pc, handler, job_field, user_id,
          resume_id, label, text, rows, bundle, pos, buf, ret, saved,
          started, filename, uploads, response, superseded>>

-----------------------------------------------------------------------------
(* Bounds *)

NProc == 2

MaxRequests == 3

-----------------------------------------------------------------------------
(* Program constants *)

RETRAIN_EVERY == 10

\* the swipes already recorded: one short of the retraining threshold
HistN == RETRAIN_EVERY - 1

MODEL_DIR == "models"

-----------------------------------------------------------------------------
(* Values *)

\* a missing or empty string (Python's "not job_field" holds of both)
NoField == <<>>

\* return values: train_model returns an int or an exception leaves it;
\* score_text returns None or a probability (here in thousandths), or
\* pickle.load raises (EOFError, UnpicklingError) and nothing catches it
NoRet == [kind |-> "pending", val |-> 0]

Samples(n) == [kind |-> "samples", val |-> n]

Absent == [kind |-> "None", val |-> 0]

Prob(x) == [kind |-> "prob", val |-> x]

LoadError == [kind |-> "UnpicklingError", val |-> 0]

\* fit_transform raised "empty vocabulary": train_model does not catch it
FitError == [kind |-> "ValueError", val |-> 0]

\* a write of pickle.dump raised (ENOSPC, EIO): train_model does not catch it
WriteError == [kind |-> "OSError", val |-> 0]

\* a hole in a file: bytes never written, below a later write's offset
Hole == [key |-> "hole", val |-> <<>>]

NoFile == [exists |-> FALSE, content |-> <<>>]

Procs == 1 .. NProc

FIELD_SPACE == <<"q", " ", "a">>

FIELD_UNDER == <<"q", "_", "a">>

FIELD_HR == <<"h", "r">>

Fields == {FIELD_SPACE, FIELD_UNDER, FIELD_HR}

Recruiters == {21}

Choices == {"pass", "like", "mash"}

\* A text is a sequence of words.
NoText == <<>>

ScoreTexts == {<<"excel", "the">>, <<"golang">>}

\* A filename is a sequence of characters that ends with its extension.
NoName == <<>>

ResumeRows ==
    (1 :> [user_id |-> 11, filename |-> <<"a", ".pdf">>, text |-> <<"java">>, job_field |-> FIELD_SPACE])
    @@ (2 :> [user_id |-> 12, filename |-> <<"b", ".pdf">>, text |-> <<"the">>, job_field |-> FIELD_UNDER])
    @@ (3 :> [user_id |-> 13, filename |-> <<"c", ".pdf">>, text |-> <<"excel", "and">>, job_field |-> FIELD_HR])

\* the logged-in candidates that send requests
Candidates == {11, 13}

\* the job_field a candidate posts with an upload
UploadFields == {FIELD_HR}

\* the names candidates give the files they upload
RawNames == {<<"a", ".pdf">>, <<"m", " ", "y", ".pdf">>, <<"m", "_", "y", ".pdf">>,
             <<"a", ".txt">>}

\* the text PdfReader extracts from an uploaded file
UploadTexts == {<<"excel">>}

\* what a request sent back: the status, and for /feedback the score_pct
\* (-1: None) and the feedback_message, for /uploads the user whose upload the
\* file sent is (0: no file sent)
NoResponse == [status |-> 0, score_pct |-> -1, feedback_message |-> "", sent |-> 0]

\* Swipes recorded earlier by other recruiters (ids above 100) on one resume.
HistOn(rid, labels) ==
    [i \in 1 .. Len(labels) |->
        [resume_id |-> rid, user_id |-> 100 + i, label |-> labels[i]]]

Histories ==
    { <<>>,
      HistOn(3, [i \in 1 .. HistN |-> 1]),
      HistOn(3, [i \in 1 .. HistN |-> i % 2]),
      HistOn(3, [i \in 1 .. HistN |-> i % 2]) \o HistOn(1, <<0, 1>>),
      HistOn(2, <<0, 1>>) }

-----------------------------------------------------------------------------
(* ml_model.py *)

\* job_field.replace("/", "_").replace(" ", "_"), joined under MODEL_DIR
model_path(jf) ==
    LET safe == [i \in 1 .. Len(jf) |->
                    IF jf[i] \in {"/", " "} THEN "_" ELSE jf[i]]
    IN  <<MODEL_DIR, "model_">> \o safe \o <<".pkl">>

Paths == {model_path(f) : f \in Fields}

\* SELECT resumes.text, swipes.label FROM swipes JOIN resumes ... WHERE job_field = ?
RECURSIVE SelectExamples(_, _, _)
SelectExamples(sw, res, jf) ==
    IF sw = <<>> THEN <<>>
    ELSE LET s == Head(sw)
             rest == SelectExamples(Tail(sw), res, jf)
         IN  IF s.resume_id \in DOMAIN res /\ res[s.resume_id].job_field = jf
             THEN <<[text |-> res[s.resume_id].text, label |-> s.label]>> \o rest
             ELSE rest

Labels(rs) == {rs[i].label : i \in DOMAIN rs}

\* mutant of TooFewClasses: the class guard is left out
TooFewClasses_OnlyEmpty(rs) == rs = <<>>

\* the guards of train_model: "if not rows" and "if len(set(labels)) < 2"
TooFewClasses(rs) == rs = <<>> \/ Cardinality(Labels(rs)) < 2

\* stop_words="english"
ENGLISH_STOP_WORDS == {"the", "and"}

\* the terms the vectorizer's analyzer keeps of a text
Terms(t) == {t[i] : i \in DOMAIN t} \ ENGLISH_STOP_WORDS

\* the vocabulary fit_transform learns from the texts
Vocabulary(rs) == UNION {Terms(rs[i].text) : i \in DOMAIN rs}

\* the number of examples labelled l whose text has the term w
DocCount(rs, w, l) ==
    Cardinality({i \in DOMAIN rs : w \in Terms(rs[i].text) /\ rs[i].label = l})

\* fit_transform raises ValueError("empty vocabulary; perhaps the documents
\* only contain stop words") when no text has a term
EmptyVocabulary(rs) == Vocabulary(rs) = {}

\* TfidfVectorizer.fit_transform and LogisticRegression.fit.  The fitted
\* vectorizer is its vocabulary with the document frequency of each term
\* (idf_); the fitted classifier is its classes_ and, per term, the numbers of
\* label-0 and label-1 examples it was fitted on.
Fit(rs) ==
    [vectorizer |-> [w \in Vocabulary(rs) |-> DocCount(rs, w, 0) + DocCount(rs, w, 1)],
     model |-> [classes |-> Labels(rs),
                coef |-> [w \in Vocabulary(rs) |->
                            <<DocCount(rs, w, 0), DocCount(rs, w, 1)>>]]]

\* the bundle a worker holds before it has fitted or loaded one
NoBundle == Fit(<<>>)

\* pickle.dump(bundle, f): the entries of the dict in insertion order
Pickle(b) ==
    << [key |-> "vectorizer", val |-> b.vectorizer],
       [key |-> "model", val |-> b.model] >>

PickleKeys == <<"vectorizer", "model">>

\* pickle.load(f) on the chunks read
Unpickle(chunks) ==
    [vectorizer |-> chunks[1].val, model |-> chunks[2].val]

\* a write of one chunk at offset i-1 of a file holding content c
WriteAt(c, i, x) ==
    [j \in 1 .. (IF Len(c) > i THEN Len(c) ELSE i) |->
        IF j = i THEN x ELSE IF j <= Len(c) THEN c[j] ELSE Hole]

Sum2(f, S, k) ==
    LET RECURSIVE go(_)
        go(T) == IF T = {} THEN 0
                 ELSE LET t == CHOOSE x \in T : TRUE IN f[t][k] + go(T \ {t})
    IN  go(S)

\* vectorizer.transform([text]) then model.predict_proba(X)[0][1], in
\* thousandths.
\* A text with no term of the vocabulary is the zero vector: the balanced
\* intercept.  class_weight="balanced" weighs each class by the inverse of
\* its size.
predict_proba(b, t) ==
    LET coef == b.model.coef
        X == Terms(t) \cap DOMAIN b.vectorizer \cap DOMAIN coef
        a == Sum2(coef, X, 2) * Sum2(coef, DOMAIN coef, 1)
        c == Sum2(coef, X, 1) * Sum2(coef, DOMAIN coef, 2)
    IN  IF a + c = 0 THEN 500 ELSE (1000 * a) \div (a + c)

-----------------------------------------------------------------------------
(* app.py *)

\* "swipe_order" not in session
NoOrder == {}

\* SELECT id FROM resumes WHERE job_field = ?
ResumesOf(res, jf) == {r \in DOMAIN res : res[r].job_field = jf}

\* SELECT id FROM swipes WHERE resume_id = ? AND user_id = ?
existing_swipe(sw, rid, uid) ==
    {i \in DOMAIN sw : sw[i].resume_id = rid /\ sw[i].user_id = uid}

\* SELECT COUNT(*) FROM swipes JOIN resumes ... WHERE resumes.job_field = ?
count(sw, res, jf) == Len(SelectExamples(sw, res, jf))

\* if count % 10 == 0
ShouldRetrain(n) == n % RETRAIN_EVERY = 0

\* label = 1 if choice in ("mash", "like") else 0
LabelOf(choice) == IF choice \in {"mash", "like"} THEN 1 ELSE 0

ALLOWED_EXTENSIONS == {".pdf"}

\* "." in filename and filename.rsplit(".", 1)[1].lower() in ALLOWED_EXTENSIONS
allowed_file(name) == name # NoName /\ name[Len(name)] \in ALLOWED_EXTENSIONS

\* werkzeug's secure_filename: path separators and white space become "_"
secure_filename(name) ==
    [i \in 1 .. Len(name) |-> IF name[i] \in {"/", " "} THEN "_" ELSE name[i]]

\* the names a file of the uploads folder can have
StoredNames ==
    {secure_filename(n) : n \in RawNames}
        \cup {ResumeRows[i].filename : i \in DOMAIN ResumeRows}

\* SELECT id, user_id FROM resumes WHERE filename = ? LIMIT 1: the table is
\* scanned in the order of its ids (0: no row)
FirstWithName(res, name) ==
    LET named == {r \in DOMAIN res : res[r].filename = name}
    IN  IF named = {} THEN 0 ELSE CHOOSE r \in named : \A q \in named : r <= q

\* SELECT ... FROM resumes WHERE user_id = ? ORDER BY uploaded_at DESC, id DESC
\* LIMIT 1 (0: no row)
LatestResume(res, uid) ==
    LET mine == {r \in DOMAIN res : res[r].user_id = uid}
    IN  IF mine = {} THEN 0 ELSE CHOOSE r \in mine : \A q \in mine : q <= r

\* SELECT id FROM resumes WHERE user_id = ? AND text = ? AND job_field = ?
existing_resume(res, uid, t, jf) ==
    {r \in DOMAIN res : res[r].user_id = uid /\ res[r].text = t /\ res[r].job_field = jf}

\* mutant of round_pct: the percentage is cut, not rounded
round_pct_floor(m) == m \div 10

\* round(raw_score * 100) of a raw_score of m thousandths: Python's round
\* takes a half to the even integer
round_pct(m) ==
    LET q == m \div 10
        r == m % 10
    IN  IF r < 5 THEN q
        ELSE IF r > 5 THEN q + 1
        ELSE IF q % 2 = 0 THEN q ELSE q + 1

\* the page /feedback renders from what score_text returned
feedback_page(raw_score) ==
    IF raw_score = Absent
    THEN [status |-> 200, score_pct |-> -1, feedback_message |-> "not enough data",
          sent |-> 0]
    ELSE LET score_pct == round_pct(raw_score.val)
         IN  [status |-> 200, score_pct |-> score_pct,
              feedback_message |->
                  IF score_pct >= 80 THEN "scores very well"
                  ELSE IF score_pct >= 50 THEN "room to improve"
                  ELSE "might not perform as well",
              sent |-> 0]

\* an exception left the view function: Flask answers 500
InternalServerError ==
    [status |-> 500, score_pct |-> -1, feedback_message |-> "", sent |-> 0]

\* redirect(url_for(...)) with a flashed message
Redirect == [status |-> 302, score_pct |-> -1, feedback_message |-> "", sent |-> 0]

\* send_from_directory: the file, or 404 when the folder has no such file
SendFile(owner) ==
    [status |-> IF owner = 0 THEN 404 ELSE 200, score_pct |-> -1,
     feedback_message |-> "", sent |-> owner]

-----------------------------------------------------------------------------
(* State machine *)

Init ==
    /\ resumes = ResumeRows
    /\ swipes \in Histories
    /\ session = [u \in Recruiters |-> [swipe_field |-> NoField, swipe_order |-> NoOrder]]
    /\ files = [p \in Paths |-> NoFile]
    /\ pc = [p \in Procs |-> "idle"]
    /\ handler = [p \in Procs |-> "none"]
    /\ job_field = [p \in Procs |-> NoField]
    /\ user_id = [p \in Procs |-> 0]
    /\ resume_id = [p \in Procs |-> 0]
    /\ label = [p \in Procs |-> 0]
    /\ text = [p \in Procs |-> NoText]
    /\ rows = [p \in Procs |-> <<>>]
    /\ bundle = [p \in Procs |-> NoBundle]
    /\ pos = [p \in Procs |-> 0]
    /\ buf = [p \in Procs |-> <<>>]
    /\ ret = [p \in Procs |-> NoRet]
    /\ saved = [f \in Fields |-> [n |-> 0, last |-> NoBundle, rows |-> <<>>, ret |-> 0]]
    /\ started = 0
    /\ filename = [p \in Procs |-> NoName]
    /\ uploads = [n \in StoredNames |->
          IF \E i \in DOMAIN ResumeRows : ResumeRows[i].filename = n
          THEN ResumeRows[CHOOSE i \in DOMAIN ResumeRows : ResumeRows[i].filename = n].user_id
          ELSE 0]
    /\ response = [p \in Procs |-> NoResponse]
    /\ superseded = [p \in Procs |-> FALSE]

\* a request is accepted by the first free worker (workers are interchangeable)
Free(p) ==
    /\ started < MaxRequests
    /\ pc[p] = "idle"
    /\ \A q \in Procs : q < p => pc[q] # "idle"

\* the worker's locals are dropped when its request ends
Cleared(p) ==
    /\ job_field' = [job_field EXCEPT ![p] = NoField]
    /\ user_id' = [user_id EXCEPT ![p] = 0]
    /\ resume_id' = [resume_id EXCEPT ![p] = 0]
    /\ label' = [label EXCEPT ![p] = 0]
    /\ text' = [text EXCEPT ![p] = NoText]
    /\ rows' = [rows EXCEPT ![p] = <<>>]
    /\ bundle' = [bundle EXCEPT ![p] = NoBundle]
    /\ pos' = [pos EXCEPT ![p] = 0]
    /\ buf' = [buf EXCEPT ![p] = <<>>]
    /\ filename' = [filename EXCEPT ![p] = NoName]

\* the request of worker p ends
Return(p) ==
    /\ pc' = [pc EXCEPT ![p] = "idle"]
    /\ handler' = [handler EXCEPT ![p] = "none"]
    /\ Cleared(p)

LocalsSame ==
    UNCHANGED <<job_field, user_id, resume_id, label, text, rows, bundle, pos, buf,
                filename>>

\* score_text returns r: /feedback goes on to render its page, any other
\* caller is done
ScoreReturns(p, r) ==
    /\ ret' = [ret EXCEPT ![p] = r]
    /\ superseded' = [superseded EXCEPT ![p] = FALSE]
    /\ IF handler[p] = "feedback"
       THEN /\ pc' = [pc EXCEPT ![p] = "fb_render"]
            /\ UNCHANGED handler
            /\ LocalsSame
       ELSE Return(p)
    /\ UNCHANGED response

\* an exception e leaves score_text: neither score_text nor feedback catches
\* it, and the request ends with it
ScoreRaises(p, e) ==
    /\ ret' = [ret EXCEPT ![p] = e]
    /\ superseded' = [superseded EXCEPT ![p] = FALSE]
    /\ response' = [response EXCEPT ![p] =
          IF handler[p] = "feedback" THEN InternalServerError ELSE @]
    /\ Return(p)

-----------------------------------------------------------------------------
(* app.py: /swipe/select, /swipe/reset, /swipe *)

\* POST /swipe/select: store the chosen field, drop the swipe order.  The
\* handler touches the session only, so it is one step of a free worker.
swipe_select(u, chosen) ==
    /\ \E p \in Procs : Free(p)
    /\ started' = started + 1
    /\ chosen # NoField
    /\ session' = [session EXCEPT ![u] = [swipe_field |-> chosen, swipe_order |-> NoOrder]]
    /\ UNCHANGED <<uploads, response, superseded, resumes, swipes, files, pc, handler, ret, saved>>
    /\ LocalsSame

\* POST /swipe/reset: drop the swipe order
swipe_reset(u) ==
    /\ \E p \in Procs : Free(p)
    /\ started' = started + 1
    /\ session[u].swipe_order # NoOrder
    /\ session' = [session EXCEPT ![u].swipe_order = NoOrder]
    /\ UNCHANGED <<uploads, response, superseded, resumes, swipes, files, pc, handler, ret, saved>>
    /\ LocalsSame

\* the session after /swipe has made sure there is a swipe order
WithOrder(u) ==
    IF session[u].swipe_order = NoOrder
    THEN [session EXCEPT ![u].swipe_order = ResumesOf(resumes, session[u].swipe_field)]
    ELSE session

\* /swipe gets past its redirects: a field is chosen, and there is a swipe
\* order or there are resumes of the field to build one from
SwipeReady(u) ==
    /\ session[u].swipe_field # NoField
    /\ session[u].swipe_order = NoOrder
         => ResumesOf(resumes, session[u].swipe_field) # {}

\* GET /swipe: builds the swipe order when there is none
swipe_get(u) ==
    /\ \E p \in Procs : Free(p)
    /\ started' = started + 1
    /\ SwipeReady(u)
    /\ session[u].swipe_order = NoOrder
    /\ session' = WithOrder(u)
    /\ UNCHANGED <<uploads, response, superseded, resumes, swipes, files, pc, handler, ret, saved>>
    /\ LocalsSame

\* POST /swipe, up to the duplicate check (SELECT id FROM swipes ...)
swipe_post(p, u, rid, choice) ==
    /\ Free(p)
    /\ started' = started + 1
    /\ SwipeReady(u)
    /\ session' = WithOrder(u)
    /\ ret' = [ret EXCEPT ![p] = NoRet]
    /\ IF existing_swipe(swipes, rid, u) # {}
       THEN /\ UNCHANGED <<pc, handler>>
            /\ LocalsSame
       ELSE /\ pc' = [pc EXCEPT ![p] = "sw_insert"]
            /\ handler' = [handler EXCEPT ![p] = "swipe"]
            /\ job_field' = [job_field EXCEPT ![p] = session[u].swipe_field]
            /\ user_id' = [user_id EXCEPT ![p] = u]
            /\ resume_id' = [resume_id EXCEPT ![p] = rid]
            /\ label' = [label EXCEPT ![p] = LabelOf(choice)]
            /\ UNCHANGED <<text, rows, bundle, pos, buf, filename>>
    /\ UNCHANGED <<uploads, response, superseded, resumes, swipes, files, saved>>

\* INSERT INTO swipes (resume_id, user_id, label)
swipe_insert(p) ==
    /\ pc[p] = "sw_insert"
    /\ swipes' = Append(swipes,
          [resume_id |-> resume_id[p], user_id |-> user_id[p], label |-> label[p]])
    /\ pc' = [pc EXCEPT ![p] = "sw_count"]
    /\ UNCHANGED <<uploads, response, superseded, resumes, session, files, handler, ret, saved, started>>
    /\ LocalsSame

\* SELECT COUNT(*) ..., then "if count % 10 == 0: train_model(db, job_field)"
swipe_count(p) ==
    /\ pc[p] = "sw_count"
    /\ IF ShouldRetrain(count(swipes, resumes, job_field[p]))
       THEN /\ pc' = [pc EXCEPT ![p] = "tm_fetch"]
            /\ UNCHANGED handler
            /\ LocalsSame
       ELSE Return(p)
    /\ UNCHANGED <<uploads, response, superseded, resumes, swipes, session, files, ret, saved, started>>

-----------------------------------------------------------------------------
(* ml_model.py: train_model *)

\* a caller other than /swipe calls train_model(db, f)
train_call(p, f) ==
    /\ Free(p)
    /\ started' = started + 1
    /\ pc' = [pc EXCEPT ![p] = "tm_fetch"]
    /\ handler' = [handler EXCEPT ![p] = "train"]
    /\ job_field' = [job_field EXCEPT ![p] = f]
    /\ ret' = [ret EXCEPT ![p] = NoRet]
    /\ UNCHANGED <<uploads, response, superseded, resumes, swipes, session, files, saved>>
    /\ UNCHANGED <<user_id, resume_id, label, text, rows, bundle, pos, buf, filename>>

\* mutant of train_fetch: the file is opened for writing before the guards
train_fetch_opens_first(p) ==
    /\ pc[p] = "tm_fetch"
    /\ files' = [files EXCEPT ![model_path(job_field[p])] =
                    [exists |-> TRUE, content |-> <<>>]]
    /\ LET rs == SelectExamples(swipes, resumes, job_field[p])
       IN  IF TooFewClasses(rs)
           THEN /\ ret' = [ret EXCEPT ![p] = Samples(0)]
                /\ Return(p)
           ELSE IF EmptyVocabulary(rs)
           THEN /\ ret' = [ret EXCEPT ![p] = FitError]
                /\ Return(p)
           ELSE /\ rows' = [rows EXCEPT ![p] = rs]
                /\ bundle' = [bundle EXCEPT ![p] = Fit(rs)]
                /\ pc' = [pc EXCEPT ![p] = "tm_open"]
                /\ UNCHANGED <<ret, handler, job_field, user_id, resume_id, label,
                               text, pos, buf, filename>>
    /\ UNCHANGED <<uploads, response, superseded, resumes, swipes, session, saved, started>>

\* mutant of train_fetch: the fit starts from the examples of the last saved
\* bundle (a warm start) and adds the fetched ones
train_fetch_warm_start(p) ==
    /\ pc[p] = "tm_fetch"
    /\ LET rs == SelectExamples(swipes, resumes, job_field[p])
       IN  IF TooFewClasses(rs)
           THEN /\ ret' = [ret EXCEPT ![p] = Samples(0)]
                /\ Return(p)
           ELSE IF EmptyVocabulary(rs)
           THEN /\ ret' = [ret EXCEPT ![p] = FitError]
                /\ Return(p)
           ELSE /\ rows' = [rows EXCEPT ![p] = rs]
                /\ bundle' = [bundle EXCEPT ![p] = Fit(saved[job_field[p]].rows \o rs)]
                /\ pc' = [pc EXCEPT ![p] = "tm_open"]
                /\ UNCHANGED <<ret, handler, job_field, user_id, resume_id, label,
                               text, pos, buf, filename>>
    /\ UNCHANGED <<uploads, response, superseded, resumes, swipes, session, files, saved, started>>

\* the SELECT, the two guards, and the fit; an exception of the fit leaves
\* train_model and, uncaught, ends the request
train_fetch(p) ==
    /\ pc[p] = "tm_fetch"
    /\ LET rs == SelectExamples(swipes, resumes, job_field[p])
       IN  IF TooFewClasses(rs)
           THEN /\ ret' = [ret EXCEPT ![p] = Samples(0)]
                /\ Return(p)
           ELSE IF EmptyVocabulary(rs)
           THEN /\ ret' = [ret EXCEPT ![p] = FitError]
                /\ Return(p)
           ELSE /\ rows' = [rows EXCEPT ![p] = rs]
                /\ bundle' = [bundle EXCEPT ![p] = Fit(rs)]
                /\ pc' = [pc EXCEPT ![p] = "tm_open"]
                /\ UNCHANGED <<ret, handler, job_field, user_id, resume_id, label,
                               text, pos, buf, filename>>
    /\ UNCHANGED <<uploads, response, superseded, resumes, swipes, session, files, saved, started>>

\* mutant of train_open: the file is opened to append, not truncated
train_open_append(p) ==
    /\ pc[p] = "tm_open"
    /\ files' = [files EXCEPT ![model_path(job_field[p])].exists = TRUE]
    /\ pos' = [pos EXCEPT ![p] = Len(files[model_path(job_field[p])].content)]
    /\ buf' = [buf EXCEPT ![p] = Pickle(bundle[p])]
    /\ pc' = [pc EXCEPT ![p] = "tm_write"]
    /\ UNCHANGED <<uploads, response, superseded, resumes, swipes, session, handler, ret, saved, started>>
    /\ UNCHANGED <<job_field, user_id, resume_id, label, text, rows, bundle, filename>>

\* open(path, "wb") creates the file or truncates it to nothing; pickle.dump
\* hands the pickled bundle to the file object
train_open(p) ==
    /\ pc[p] = "tm_open"
    /\ files' = [files EXCEPT ![model_path(job_field[p])] =
                    [exists |-> TRUE, content |-> <<>>]]
    /\ pos' = [pos EXCEPT ![p] = 0]
    /\ buf' = [buf EXCEPT ![p] = Pickle(bundle[p])]
    /\ pc' = [pc EXCEPT ![p] = "tm_write"]
    /\ UNCHANGED <<uploads, response, superseded, resumes, swipes, session, handler, ret, saved, started>>
    /\ UNCHANGED <<job_field, user_id, resume_id, label, text, rows, bundle, filename>>

\* the file object writes the next pickled chunk at its own offset; after the
\* last one the file is closed and train_model returns len(texts)
train_write(p) ==
    /\ pc[p] = "tm_write"
    /\ files' = [files EXCEPT ![model_path(job_field[p])].content =
                    WriteAt(@, pos[p] + 1, Head(buf[p]))]
    /\ IF Tail(buf[p]) # <<>>
       THEN /\ pos' = [pos EXCEPT ![p] = pos[p] + 1]
            /\ buf' = [buf EXCEPT ![p] = Tail(buf[p])]
            /\ UNCHANGED <<pc, handler, ret, saved, superseded>>
            /\ UNCHANGED <<job_field, user_id, resume_id, label, text, rows, bundle, filename>>
       ELSE /\ ret' = [ret EXCEPT ![p] = Samples(Len(rows[p]))]
            /\ saved' = [saved EXCEPT ![job_field[p]] =
                  [n |-> IF @.n < 2 THEN @.n + 1 ELSE 2, last |-> bundle[p],
                   rows |-> rows[p], ret |-> Len(rows[p])]]
            /\ superseded' = [q \in Procs |->
                  \/ superseded[q]
                  \/ /\ pc[q] \in {"sc_exists", "sc_read", "sc_predict"}
                     /\ job_field[q] = job_field[p]]
            /\ Return(p)
    /\ UNCHANGED <<uploads, response, resumes, swipes, session, started>>

-----------------------------------------------------------------------------
(* ml_model.py: score_text *)

\* a caller calls score_text(t, f)
score_text(p, t, f) ==
    /\ Free(p)
    /\ started' = started + 1
    /\ ret' = [ret EXCEPT ![p] = NoRet]
    /\ pc' = [pc EXCEPT ![p] = "sc_exists"]
    /\ handler' = [handler EXCEPT ![p] = "score"]
    /\ job_field' = [job_field EXCEPT ![p] = f]
    /\ text' = [text EXCEPT ![p] = t]
    /\ UNCHANGED <<user_id, resume_id, label, rows, bundle, pos, buf, filename>>
    /\ UNCHANGED <<uploads, response, superseded, resumes, swipes, session, files, saved>>

\* mutant of load_exists: a missing file is created on the way
load_exists_touch(p) ==
    /\ pc[p] = "sc_exists"
    /\ IF ~files[model_path(job_field[p])].exists
       THEN /\ ScoreReturns(p, Absent)
            /\ files' = [files EXCEPT ![model_path(job_field[p])].exists = TRUE]
       ELSE /\ pc' = [pc EXCEPT ![p] = "sc_read"]
            /\ UNCHANGED <<ret, handler, files, response, superseded>>
            /\ LocalsSame
    /\ UNCHANGED <<uploads, resumes, swipes, session, saved, started>>

\* _load_model_bundle: "if not os.path.exists(path): return None", and then
\* score_text: "if bundle is None: return None"
load_exists(p) ==
    /\ pc[p] = "sc_exists"
    /\ IF ~files[model_path(job_field[p])].exists
       THEN ScoreReturns(p, Absent)
       ELSE /\ pc' = [pc EXCEPT ![p] = "sc_read"]
            /\ UNCHANGED <<ret, handler, response, superseded>>
            /\ LocalsSame
    /\ UNCHANGED <<uploads, resumes, swipes, session, files, saved, started>>

\* pickle.load reads the next chunk; a file that ends early, or a chunk that
\* is not the expected entry, makes it raise
load_read(p) ==
    /\ pc[p] = "sc_read"
    /\ LET c == files[model_path(job_field[p])].content
           i == Len(buf[p]) + 1
       IN  IF Len(c) < i \/ c[i].key # PickleKeys[i]
           THEN ScoreRaises(p, LoadError)
           ELSE /\ buf' = [buf EXCEPT ![p] = Append(@, c[i])]
                /\ IF i < Len(PickleKeys)
                   THEN UNCHANGED <<pc, bundle>>
                   ELSE /\ pc' = [pc EXCEPT ![p] = "sc_predict"]
                        /\ bundle' = [bundle EXCEPT ![p] = Unpickle(buf'[p])]
                /\ UNCHANGED <<ret, handler, job_field, user_id, resume_id,
                               label, text, rows, pos, filename, response, superseded>>
    /\ UNCHANGED <<uploads, resumes, swipes, session, files, saved, started>>

\* vectorizer.transform, model.predict_proba, return prob
score_predict(p) ==
    /\ pc[p] = "sc_predict"
    /\ ScoreReturns(p, Prob(predict_proba(bundle[p], text[p])))
    /\ UNCHANGED <<uploads, resumes, swipes, session, files, saved, started>>

\* mutant of train_write_fails: the file cut short is removed
train_write_fails_removes(p) ==
    /\ pc[p] = "tm_write"
    /\ ret' = [ret EXCEPT ![p] = WriteError]
    /\ files' = [files EXCEPT ![model_path(job_field[p])] = NoFile]
    /\ Return(p)
    /\ UNCHANGED <<uploads, response, superseded, resumes, swipes, session,
                   saved, started>>

\* a write of pickle.dump fails (the disk is full): the exception leaves
\* train_model, the with statement closes the file, and what was written of
\* the file stays
train_write_fails(p) ==
    /\ pc[p] = "tm_write"
    /\ ret' = [ret EXCEPT ![p] = WriteError]
    /\ Return(p)
    /\ UNCHANGED <<uploads, response, superseded, resumes, swipes, session, files,
                   saved, started>>

-----------------------------------------------------------------------------
(* app.py: /upload, /uploads/<filename>, /feedback *)

\* session.get("role")
role(u) == IF u \in Recruiters THEN "recruiter" ELSE "candidate"

\* POST /upload, up to resume_file.save(filepath): the file is written under
\* its secure name, over any file of that name
upload(p, u, name, t, f) ==
    /\ Free(p)
    /\ started' = started + 1
    /\ role(u) = "candidate"
    /\ IF name = NoName \/ f = NoField \/ ~allowed_file(name)
       THEN /\ response' = [response EXCEPT ![p] = Redirect]
            /\ UNCHANGED <<uploads, pc, handler>>
            /\ LocalsSame
       ELSE /\ uploads' = [uploads EXCEPT ![secure_filename(name)] = u]
            /\ response' = [response EXCEPT ![p] = NoResponse]
            /\ pc' = [pc EXCEPT ![p] = "up_select"]
            /\ handler' = [handler EXCEPT ![p] = "upload"]
            /\ filename' = [filename EXCEPT ![p] = secure_filename(name)]
            /\ text' = [text EXCEPT ![p] = t]
            /\ job_field' = [job_field EXCEPT ![p] = f]
            /\ user_id' = [user_id EXCEPT ![p] = u]
            /\ UNCHANGED <<resume_id, label, rows, bundle, pos, buf>>
    /\ UNCHANGED <<superseded, resumes, swipes, session, files, ret, saved>>

\* the duplicate check: SELECT id FROM resumes WHERE user_id = ? AND text = ?
\* AND job_field = ?
upload_select(p) ==
    /\ pc[p] = "up_select"
    /\ IF existing_resume(resumes, user_id[p], text[p], job_field[p]) # {}
       THEN /\ response' = [response EXCEPT ![p] = Redirect]
            /\ Return(p)
       ELSE /\ pc' = [pc EXCEPT ![p] = "up_insert"]
            /\ UNCHANGED <<response, handler>>
            /\ LocalsSame
    /\ UNCHANGED <<uploads, superseded, resumes, swipes, session, files, ret, saved,
                   started>>

\* INSERT INTO resumes (user_id, filename, text, job_field)
upload_insert(p) ==
    /\ pc[p] = "up_insert"
    /\ LET id == 1 + Cardinality(DOMAIN resumes)
       IN  resumes' = resumes @@ (id :> [user_id |-> user_id[p], filename |-> filename[p],
                                        text |-> text[p], job_field |-> job_field[p]])
    /\ response' = [response EXCEPT ![p] = Redirect]
    /\ Return(p)
    /\ UNCHANGED <<uploads, superseded, swipes, session, files, ret, saved, started>>

\* GET /uploads/<filename>, up to the permission check
uploaded_file(p, u, name) ==
    /\ Free(p)
    /\ started' = started + 1
    /\ LET row == FirstWithName(resumes, name)
       IN  IF row = 0 \/ (role(u) # "recruiter" /\ u # resumes[row].user_id)
           THEN /\ response' = [response EXCEPT ![p] = Redirect]
                /\ UNCHANGED <<pc, handler>>
                /\ LocalsSame
           ELSE /\ response' = [response EXCEPT ![p] = NoResponse]
                /\ pc' = [pc EXCEPT ![p] = "uf_send"]
                /\ handler' = [handler EXCEPT ![p] = "uploaded_file"]
                /\ filename' = [filename EXCEPT ![p] = name]
                /\ user_id' = [user_id EXCEPT ![p] = u]
                /\ UNCHANGED <<job_field, resume_id, label, text, rows, bundle, pos, buf>>
    /\ UNCHANGED <<uploads, superseded, resumes, swipes, session, files, ret, saved>>

\* send_from_directory(UPLOAD_FOLDER, filename)
uploaded_send(p) ==
    /\ pc[p] = "uf_send"
    /\ response' = [response EXCEPT ![p] = SendFile(uploads[filename[p]])]
    /\ Return(p)
    /\ UNCHANGED <<uploads, superseded, resumes, swipes, session, files, ret, saved,
                   started>>

\* GET /feedback, up to the call of score_text on the latest resume
feedback(p, u) ==
    /\ Free(p)
    /\ started' = started + 1
    /\ role(u) = "candidate"
    /\ LET row == LatestResume(resumes, u)
       IN  IF row = 0
           THEN /\ response' = [response EXCEPT ![p] = Redirect]
                /\ UNCHANGED <<pc, handler, ret>>
                /\ LocalsSame
           ELSE /\ response' = [response EXCEPT ![p] = NoResponse]
                /\ ret' = [ret EXCEPT ![p] = NoRet]
                /\ pc' = [pc EXCEPT ![p] = "sc_exists"]
                /\ handler' = [handler EXCEPT ![p] = "feedback"]
                /\ user_id' = [user_id EXCEPT ![p] = u]
                /\ text' = [text EXCEPT ![p] = resumes[row].text]
                /\ job_field' = [job_field EXCEPT ![p] = resumes[row].job_field]
                /\ UNCHANGED <<resume_id, label, rows, bundle, pos, buf, filename>>
    /\ UNCHANGED <<uploads, superseded, resumes, swipes, session, files, saved>>

\* /feedback after score_text has returned: score_pct, feedback_message,
\* render_template
feedback_render(p) ==
    /\ pc[p] = "fb_render"
    /\ response' = [response EXCEPT ![p] = feedback_page(ret[p])]
    /\ Return(p)
    /\ UNCHANGED <<uploads, superseded, resumes, swipes, session, files, ret, saved,
                   started>>

-----------------------------------------------------------------------------

Next ==
    \/ \E u \in Recruiters, f \in Fields : swipe_select(u, f)
    \/ \E u \in Recruiters : swipe_reset(u)
    \/ \E u \in Recruiters : swipe_get(u)
    \/ \E p \in Procs, u \in Recruiters, rid \in DOMAIN resumes, c \in Choices :
          swipe_post(p, u, rid, c)
    \/ \E p \in Procs : swipe_insert(p)
    \/ \E p \in Procs : swipe_count(p)
    \/ \E p \in Procs, f \in Fields : train_call(p, f)
    \/ \E p \in Procs : train_fetch(p)
    \/ \E p \in Procs : train_open(p)
    \/ \E p \in Procs : train_write(p)
    \/ \E p \in Procs, t \in ScoreTexts, f \in Fields : score_text(p, t, f)
    \/ \E p \in Procs : load_exists(p)
    \/ \E p \in Procs : load_read(p)
    \/ \E p \in Procs : score_predict(p)

Spec == Init /\ [][Next]_vars

\* One request at a time: a request is accepted only when no other is being
\* served (single-threaded request-response processing).
Serial == \A p \in Procs : p > 1 => pc[p] = "idle"

SeqNext ==
    \/ (\E u \in Recruiters, f \in Fields : swipe_select(u, f)) /\ Serial'
    \/ (\E u \in Recruiters : swipe_reset(u)) /\ Serial'
    \/ (\E u \in Recruiters : swipe_get(u)) /\ Serial'
    \/ (\E p \in Procs, u \in Recruiters, rid \in DOMAIN resumes, c \in Choices :
          swipe_post(p, u, rid, c)) /\ Serial'
    \/ (\E p \in Procs : swipe_insert(p)) /\ Serial'
    \/ (\E p \in Procs : swipe_count(p)) /\ Serial'
    \/ (\E p \in Procs, f \in Fields : train_call(p, f)) /\ Serial'
    \/ (\E p \in Procs : train_fetch(p)) /\ Serial'
    \/ (\E p \in Procs : train_open(p)) /\ Serial'
    \/ (\E p \in Procs : train_write(p)) /\ Serial'
    \/ (\E p \in Procs, t \in ScoreTexts, f \in Fields : score_text(p, t, f)) /\ Serial'
    \/ (\E p \in Procs : load_exists(p)) /\ Serial'
    \/ (\E p \in Procs : load_read(p)) /\ Serial'
    \/ (\E p \in Procs : score_predict(p)) /\ Serial'

SeqSpec == Init /\ [][SeqNext]_vars

\* The classifier and the swipe handler on a disk that can fill up.  The
\* tables are those on which train_model has each of its outcomes: a field
\* with both labels (it saves, or a write fails), a field of stop words only
\* (the fit raises), and fields without swipes (it returns 0).
FaultHistories ==
    { HistOn(3, [i \in 1 .. HistN |-> i % 2]),
      HistOn(2, <<0, 1>>) }

FaultInit == Init /\ swipes \in FaultHistories

FaultNext ==
    \/ \E u \in Recruiters, f \in Fields : swipe_select(u, f)
    \/ \E u \in Recruiters : swipe_reset(u)
    \/ \E u \in Recruiters : swipe_get(u)
    \/ \E p \in Procs, u \in Recruiters, rid \in DOMAIN resumes, c \in Choices :
          swipe_post(p, u, rid, c)
    \/ \E p \in Procs : swipe_insert(p)
    \/ \E p \in Procs : swipe_count(p)
    \/ \E p \in Procs, f \in Fields : train_call(p, f)
    \/ \E p \in Procs : train_fetch(p)
    \/ \E p \in Procs : train_open(p)
    \/ \E p \in Procs : train_write(p)
    \/ \E p \in Procs : train_write_fails(p)
    \/ \E p \in Procs, t \in ScoreTexts, f \in Fields : score_text(p, t, f)
    \/ \E p \in Procs : load_exists(p)
    \/ \E p \in Procs : load_read(p)
    \/ \E p \in Procs : score_predict(p)

FaultSpec == FaultInit /\ [][FaultNext]_vars

\* The candidates' pages beside the classifier: uploads, the served files,
\* and the feedback page, which scores while train_model calls run.
WebNext ==
    \/ \E p \in Procs, u \in Candidates, name \in RawNames, t \in UploadTexts,
          f \in UploadFields : upload(p, u, name, t, f)
    \/ \E p \in Procs : upload_select(p)
    \/ \E p \in Procs : upload_insert(p)
    \/ \E p \in Procs, u \in Candidates \cup Recruiters, name \in StoredNames :
          uploaded_file(p, u, name)
    \/ \E p \in Procs : uploaded_send(p)
    \/ \E p \in Procs, u \in Candidates : feedback(p, u)
    \/ \E p \in Procs : load_exists(p)
    \/ \E p \in Procs : load_read(p)
    \/ \E p \in Procs : score_predict(p)
    \/ \E p \in Procs : feedback_render(p)
    \/ \E p \in Procs, f \in Fields : train_call(p, f)
    \/ \E p \in Procs : train_fetch(p)
    \/ \E p \in Procs : train_open(p)
    \/ \E p \in Procs : train_write(p)
    \/ \E p \in Procs : train_write_fails(p)

WebSpec == Init /\ [][WebNext]_vars

\* what score_text can return to /feedback: None, or any probability
ScoreResults == {Absent} \cup {Prob(m) : m \in 0 .. 1000}

\* /feedback at the return of its score_text call, for every value the call
\* can return
RenderInit ==
    /\ resumes = ResumeRows
    /\ swipes \in Histories
    /\ session = [u \in Recruiters |-> [swipe_field |-> NoField, swipe_order |-> NoOrder]]
    /\ files = [p \in Paths |-> NoFile]
    /\ pc = [p \in Procs |-> IF p = 1 THEN "fb_render" ELSE "idle"]
    /\ handler = [p \in Procs |-> IF p = 1 THEN "feedback" ELSE "none"]
    /\ \E u \in Candidates :
          /\ user_id = [p \in Procs |-> IF p = 1 THEN u ELSE 0]
          /\ job_field = [p \in Procs |->
                IF p = 1 THEN ResumeRows[LatestResume(ResumeRows, u)].job_field ELSE NoField]
          /\ text = [p \in Procs |->
                IF p = 1 THEN ResumeRows[LatestResume(ResumeRows, u)].text ELSE NoText]
    /\ resume_id = [p \in Procs |-> 0]
    /\ label = [p \in Procs |-> 0]
    /\ rows = [p \in Procs |-> <<>>]
    /\ bundle = [p \in Procs |-> NoBundle]
    /\ pos = [p \in Procs |-> 0]
    /\ buf = [p \in Procs |-> <<>>]
    /\ \E r \in ScoreResults : ret = [p \in Procs |-> IF p = 1 THEN r ELSE NoRet]
    /\ saved = [f \in Fields |-> [n |-> 0, last |-> NoBundle, rows |-> <<>>, ret |-> 0]]
    /\ started = 1
    /\ filename = [p \in Procs |-> NoName]
    /\ uploads = [n \in StoredNames |->
          IF \E i \in DOMAIN ResumeRows : ResumeRows[i].filename = n
          THEN ResumeRows[CHOOSE i \in DOMAIN ResumeRows : ResumeRows[i].filename = n].user_id
          ELSE 0]
    /\ response = [p \in Procs |-> NoResponse]
    /\ superseded = [p \in Procs |-> FALSE]

RenderNext == \E p \in Procs : feedback_render(p)

RenderSpec == RenderInit /\ [][RenderNext]_vars

-----------------------------------------------------------------------------
(* Properties *)

\* the chunks a file or a worker holds that carry a fitted classifier
ModelChunks(c) == {c[i].val : i \in {j \in DOMAIN c : c[j].key = "model"}}

\* the chunks a file or a worker holds that carry a fitted vectorizer
VectorizerChunks(c) == {c[i].val : i \in {j \in DOMAIN c : c[j].key = "vectorizer"}}

\* the workers that have the file at path open for writing
Writers(path) ==
    {p \in Procs : pc[p] = "tm_write" /\ model_path(job_field[p]) = path}

\* the content is the complete pickle of some bundle
Complete(c) ==
    /\ Len(c) = 2
    /\ c[1].key = "vectorizer"
    /\ c[2].key = "model"

\* C1: whatever is stored in a model file, at any moment, comes from a fit on
\* examples that carried both label 0 and label 1: every classifier stored has
\* the two classes and every vectorizer stored has a vocabulary; nothing is
\* written from single-class or empty data.
C1_NoSingleClassBundle ==
    /\ \A path \in Paths :
          /\ ~files[path].exists => files[path].content = <<>>
          /\ \A m \in ModelChunks(files[path].content) :
                /\ m.classes = {0, 1}
                /\ \A t \in DOMAIN m.coef : m.coef[t][1] + m.coef[t][2] >= 1
                /\ \E t \in DOMAIN m.coef : m.coef[t][1] >= 1
                /\ \E t \in DOMAIN m.coef : m.coef[t][2] >= 1
          /\ \A v \in VectorizerChunks(files[path].content) : DOMAIN v # {}
    /\ \A p \in Procs :
          pc[p] \in {"tm_open", "tm_write"} =>
              {rows[p][i].label : i \in DOMAIN rows[p]} = {0, 1}

\* C1 witness: a swipe handler's retraining has stored a complete bundle.
C1_Witness ==
    \E p \in Procs, path \in Paths :
        /\ ret[p].kind = "samples"
        /\ ret[p].val = RETRAIN_EVERY
        /\ Complete(files[path].content)
        /\ ModelChunks(files[path].content) # {}

\* the labels of the swipes of field f, read off the tables
FieldLabels(f) ==
    {swipes[i].label : i \in {j \in DOMAIN swipes :
        /\ swipes[j].resume_id \in DOMAIN resumes
        /\ resumes[swipes[j].resume_id].job_field = f}}

\* C2: a train_model call that fetches no example, or examples of one label
\* only, returns 0 (it does not raise) and leaves every model file as it was.
C2_DegenerateTrainIsNoOp ==
    [][\A p \in Procs :
          (pc[p] = "tm_fetch" /\ pc'[p] # "tm_fetch"
             /\ Cardinality(FieldLabels(job_field[p])) < 2)
          => /\ pc'[p] = "idle"
             /\ ret'[p] = Samples(0)
             /\ files' = files
             /\ saved' = saved]_vars

\* C2 witness: a call returned 0 while a complete bundle was stored.
C2_Witness ==
    \E p \in Procs, path \in Paths :
        /\ ret[p] = Samples(0)
        /\ pc[p] = "idle"
        /\ Complete(files[path].content)

\* the swipes of field f, read off the tables
FieldSwipes(f) ==
    {j \in DOMAIN swipes :
        /\ swipes[j].resume_id \in DOMAIN resumes
        /\ resumes[swipes[j].resume_id].job_field = f}

\* the swipes of field f labelled l on a resume whose text has the word w
FieldSwipesOf(f, w, l) ==
    {j \in FieldSwipes(f) :
        /\ \E i \in DOMAIN resumes[swipes[j].resume_id].text :
              resumes[swipes[j].resume_id].text[i] = w
        /\ swipes[j].label = l}

\* the words, other than stop words, of the texts of the swipes of field f
FieldWords(f) ==
    UNION {{resumes[swipes[j].resume_id].text[i] :
                i \in DOMAIN resumes[swipes[j].resume_id].text} : j \in FieldSwipes(f)}
      \ {"the", "and"}

\* what C3 says of a call that reaches the end of train_model
StoredAndCounted(p) ==
    LET f == job_field[p]
        c == files'[model_path(f)].content
    IN  /\ FieldLabels(f) = {0, 1}
        /\ ret'[p] = Samples(Cardinality(FieldSwipes(f)))
        /\ files'[model_path(f)].exists
        /\ Complete(c)
        /\ c[1].val = [w \in FieldWords(f) |->
               Cardinality(FieldSwipesOf(f, w, 0)) + Cardinality(FieldSwipesOf(f, w, 1))]
        /\ c[2].val.classes = {0, 1}
        /\ c[2].val.coef = [w \in FieldWords(f) |->
               << Cardinality(FieldSwipesOf(f, w, 0)),
                  Cardinality(FieldSwipesOf(f, w, 1)) >>]

\* C3 as claimed: served on its own, every train_model call whose examples
\* carry both labels goes on to fit and save, returns the number of the
\* field's examples, and the field's file then holds exactly the pickle of a
\* vectorizer and a classifier fitted on all of them.
C3_Original ==
    [][\A p \in Procs :
          /\ (pc[p] = "tm_fetch" /\ pc'[p] # "tm_fetch"
                /\ FieldLabels(job_field[p]) = {0, 1})
             => pc'[p] = "tm_open"
          /\ (pc[p] = "tm_write" /\ pc'[p] = "idle") => StoredAndCounted(p)]_vars

\* C3 as amended: served on its own, a train_model call whose examples carry
\* both labels and whose texts have at least one word that is no stop word
\* goes on to fit and save, returns the number of the field's examples, and
\* the field's file then holds exactly the pickle of a vectorizer and a
\* classifier fitted on all of them, with nothing left of what the file held
\* before.  When the texts have no such word the fit raises ValueError: no
\* file is touched and no count is returned.
C3_TrainStoresAndCounts ==
    [][\A p \in Procs :
          /\ (pc[p] = "tm_fetch" /\ pc'[p] # "tm_fetch"
                /\ FieldLabels(job_field[p]) = {0, 1})
             => IF FieldWords(job_field[p]) # {}
                THEN pc'[p] = "tm_open" /\ files' = files
                ELSE pc'[p] = "idle" /\ ret'[p] = FitError /\ files' = files
          /\ (pc[p] = "tm_write" /\ pc'[p] = "idle") => StoredAndCounted(p)]_vars

\* C3 witness: a second successful call for a field has returned the
\* threshold count, and the file holds the bundle fitted on that many examples.
C3_Witness ==
    \E p \in Procs, f \in Fields :
        /\ saved[f].n = 2
        /\ ret[p] = Samples(RETRAIN_EVERY)
        /\ Complete(files[model_path(f)].content)
        /\ \E t \in DOMAIN files[model_path(f)].content[1].val :
              files[model_path(f)].content[1].val[t] = RETRAIN_EVERY

\* C4: score_text returns None exactly when no train_model call for its
\* job_field has ever saved a bundle.
C4_AbsentIffNeverSaved ==
    [][\A p \in Procs :
          (handler[p] = "score" /\ pc[p] # "idle" /\ pc'[p] = "idle")
          => ((ret'[p] = Absent) <=> (saved[job_field[p]].n = 0))]_vars

\* the vectorizer and the classifier of a bundle come from one fit: the
\* classifier's features are the vectorizer's vocabulary, term by term
OneFit(b) ==
    /\ DOMAIN b.vectorizer = DOMAIN b.model.coef
    /\ \A t \in DOMAIN b.vectorizer :
          b.vectorizer[t] = b.model.coef[t][1] + b.model.coef[t][2]

\* C5: a load that runs while a train_model call writes the file gets a whole
\* bundle, the old one or the new one: pickle.load never fails on a file cut
\* short, and never yields the vectorizer of one fit with the classifier of
\* another.
C5_AtomicSave ==
    \A p \in Procs :
        /\ ret[p] # LoadError
        /\ pc[p] = "sc_predict" => OneFit(bundle[p])

\* the fields whose model file no other field shares
OwnPath(f) == \A g \in Fields : model_path(g) = model_path(f) => g = f

\* C6: when the train_model calls for one field have all finished, the
\* field's file holds the whole bundle of one of them, not pieces of two.
C6_NoPartialOverwrite ==
    \A f \in {g \in Fields : OwnPath(g)} :
        (files[model_path(f)].exists /\ Writers(model_path(f)) = {})
        => /\ Complete(files[model_path(f)].content)
           /\ OneFit(Unpickle(files[model_path(f)].content))

\* C7: no step of a train_model call for field A changes the file that
\* score_text reads for a different field B.
C7_IndependentSlots ==
    [][\A p \in Procs :
          (handler[p] \in {"train", "swipe"} /\ pc[p] \in {"tm_open", "tm_write"}
             /\ pc'[p] # pc[p])
          => \A B \in Fields \ {job_field[p]} :
                files'[model_path(B)] = files[model_path(B)]]_vars

\* C8: the swipe handler calls train_model exactly when the count it has just
\* taken, after its insert, is a positive multiple of 10; the handler does not
\* return before that call has returned.
C8_RetrainPolicy ==
    [][\A p \in Procs :
          /\ (pc[p] = "sw_count" /\ pc'[p] # "sw_count")
             => LET n == Cardinality(FieldSwipes(job_field[p]))
                IN  (pc'[p] = "tm_fetch") <=> (n > 0 /\ n % 10 = 0)
          /\ (handler'[p] = "swipe" /\ pc'[p] = "tm_fetch") => pc[p] \in {"sw_count", "tm_fetch"}
          /\ (handler[p] = "swipe" /\ pc[p] \in {"tm_fetch", "tm_open", "tm_write"}
                /\ pc'[p] = "idle")
             => ret'[p].kind \in {"samples", "ValueError"}]_vars

\* C9: once two train_model calls for a field have saved and none is writing,
\* the field's file is the whole bundle of the call that returned last, so
\* that is what score_text loads.
C9_MonotonicReplacement ==
    \A f \in {g \in Fields : OwnPath(g)} :
        (saved[f].n >= 2 /\ Writers(model_path(f)) = {})
        => /\ Complete(files[model_path(f)].content)
           /\ Unpickle(files[model_path(f)].content) = saved[f].last

\* C10: no step of a score_text call changes a model file, the swipes, the
\* resumes or a session.
C10_ScoreIsPureRead ==
    [][\A p \in Procs :
          ((handler[p] = "score" \/ handler'[p] = "score")
             /\ (pc'[p] # pc[p] \/ buf'[p] # buf[p]))
          => UNCHANGED <<files, swipes, resumes, session, saved>>]_vars

\* C10 witness: score_text has returned a probability from a stored bundle,
\* and another call has returned None for a field without a file.
C10_Witness ==
    \E p \in Procs, q \in Procs :
        /\ ret[p].kind = "prob"
        /\ ret[q] = Absent
        /\ \E path \in Paths : Complete(files[path].content)
        /\ \E path \in Paths : ~files[path].exists

\* a score_text call of worker p returns or raises at this step
ScoreEnds(p) ==
    /\ pc[p] \in {"sc_exists", "sc_read", "sc_predict"}
    /\ pc'[p] \notin {"sc_exists", "sc_read", "sc_predict"}

\* C11: score_text is a function of the text and the stored bundle version:
\* a call for a field that has a saved bundle, during which no train_model
\* call saved for the field, returns the probability that the last saved
\* bundle gives the text, a value in [0,1]; so two calls with the same text
\* and field under one bundle version return the same probability.
C11_ScoreIsDeterministic ==
    [][\A p \in Procs :
          (ScoreEnds(p) /\ saved[job_field[p]].n >= 1 /\ ~superseded[p])
          => /\ ret'[p] = Prob(predict_proba(saved[job_field[p]].last, text[p]))
             /\ ret'[p].val \in 0 .. 1000]_vars

\* a train_model call of worker p ends with an exception at this step, after
\* it has passed the two guards
TrainFails(p) ==
    /\ pc[p] \in {"tm_fetch", "tm_open", "tm_write"}
    /\ pc'[p] = "idle"
    /\ ret'[p].kind \in {"ValueError", "OSError"}

\* C12: when a train_model call fails after the class guard (the fit raises,
\* or a write of the bundle raises), the field's file still holds, whole,
\* the bundle that was last saved for the field.
C12_FailedTrainKeepsBundle ==
    [][\A p \in Procs :
          (TrainFails(p) /\ saved[job_field[p]].n >= 1 /\ OwnPath(job_field[p])
             /\ Writers(model_path(job_field[p])) \subseteq {p})
          => /\ Complete(files'[model_path(job_field[p])].content)
             /\ Unpickle(files'[model_path(job_field[p])].content)
                   = saved[job_field[p]].last]_vars

\* the file pickle.load reads for worker p is cut short or corrupt at the
\* chunk it is about to read
LoadFails(p) ==
    LET c == files[model_path(job_field[p])].content
        i == Len(buf[p]) + 1
    IN  pc[p] = "sc_read" /\ (Len(c) < i \/ c[i].key # PickleKeys[i])

\* C13: when the load of a bundle fails, score_text raises (it returns
\* neither a probability nor None), and a /feedback request that made the
\* call still answers with a page, one that says feedback is temporarily
\* unavailable: the request does not end in the exception.
C13_LoadFailureIsSurfaced ==
    [][\A p \in Procs :
          (LoadFails(p) /\ pc'[p] # "sc_read")
          => /\ ret'[p].kind \notin {"prob", "None"}
             /\ handler[p] = "feedback"
                  => /\ response'[p].status = 200
                     /\ response'[p].feedback_message = "temporarily unavailable"]_vars

\* the message C14 gives a probability of m thousandths
BucketOf(m) ==
    IF m >= 800 THEN "scores very well"
    ELSE IF m >= 500 THEN "room to improve"
    ELSE "might not perform as well"

\* the /feedback request of worker p renders its page at this step
Renders(p) == pc[p] = "fb_render" /\ pc'[p] = "idle"

\* C14 as claimed: None gives the not-enough-data message and no percentage;
\* a probability of at least 0.8 gives the favorable message, one of at least
\* 0.5 and below 0.8 the mixed message, one below 0.5 the needs-improvement
\* message, also just under a boundary.
C14_Original ==
    [][\A p \in Procs :
          Renders(p)
          => IF ret[p] = Absent
             THEN /\ response'[p].feedback_message = "not enough data"
                  /\ response'[p].score_pct = -1
             ELSE response'[p].feedback_message = BucketOf(ret[p].val)]_vars

\* C14 as amended: None gives the not-enough-data message and no percentage;
\* otherwise the page shows the whole percentage nearest the probability and
\* the message goes by that percentage: favorable from 80, mixed from 50 to
\* 79, needs-improvement below 50.  So a probability from 0.795 on is
\* favorable and one from 0.495 to below 0.795 is mixed: a probability within
\* half a percent under a boundary gets the message of the bucket above.
C14_BucketsOfRoundedPercentage ==
    [][\A p \in Procs :
          Renders(p)
          => /\ response'[p].status = 200
             /\ IF ret[p] = Absent
                THEN /\ response'[p].feedback_message = "not enough data"
                     /\ response'[p].score_pct = -1
                ELSE LET m == ret[p].val
                         pct == response'[p].score_pct
                     IN  /\ pct \in 0 .. 100
                         /\ 10 * pct - m \in -5 .. 5
                         /\ response'[p].feedback_message =
                               (IF pct >= 80 THEN "scores very well"
                                ELSE IF pct >= 50 THEN "room to improve"
                                ELSE "might not perform as well")
                         /\ response'[p].feedback_message =
                               (IF m >= 795 THEN "scores very well"
                                ELSE IF m >= 495 THEN "room to improve"
                                ELSE "might not perform as well")]_vars

\* C14 witness: a probability of 0.796 was shown as 80 with the favorable
\* message.
C14_Witness ==
    \E p \in Procs :
        /\ ret[p] = Prob(796)
        /\ response[p].score_pct = 80
        /\ response[p].feedback_message = "scores very well"

\* C15: served one at a time, a train_model call that fetches the very
\* examples the last saving call for the field fetched returns the count that
\* call returned and stores the same bundle, so score_text gives every text
\* the same result as before.
C15_TrainIsIdempotent ==
    [][\A p \in Procs :
          (pc[p] = "tm_write" /\ pc'[p] = "idle" /\ saved[job_field[p]].n >= 1
             /\ rows[p] = saved[job_field[p]].rows)
          => LET f == job_field[p]
                 c == files'[model_path(f)].content
             IN  /\ ret'[p] = Samples(saved[f].ret)
                 /\ Complete(c)
                 /\ Unpickle(c) = saved[f].last
                 /\ \A t \in ScoreTexts \cup {resumes[r].text : r \in DOMAIN resumes} :
                       predict_proba(Unpickle(c), t) = predict_proba(saved[f].last, t)]_vars

\* C15 witness: two train_model calls for a field saved, the second on the
\* examples of the first.
C15_Witness ==
    \E p \in Procs, f \in Fields :
        /\ saved[f].n = 2
        /\ pc[p] = "idle"
        /\ ret[p] = Samples(saved[f].ret)
        /\ saved[f].rows = SelectExamples(swipes, resumes, f)
        /\ saved[f].rows # <<>>

\* C16: no step removes a model file, whatever the outcome of the call it
\* belongs to, and once a train_model call has saved for a field, no
\* score_text call for the field returns None.
C16_BundleNeverRemoved ==
    [][/\ \A path \in Paths : files[path].exists => files'[path].exists
       /\ \A p \in Procs :
             (ScoreEnds(p) /\ saved[job_field[p]].n >= 1) => ret'[p] # Absent]_vars

\* C16 witness: after a save for a field, a later call failed on a write and a
\* score_text call for the field still found the file.
C16_Witness ==
    \E p \in Procs, q \in Procs, f \in Fields :
        /\ saved[f].n >= 1
        /\ ret[p] = WriteError
        /\ ret[q].kind \in {"prob", "UnpicklingError"}
        /\ files[model_path(f)].exists

\* C17: a candidate who requests /uploads/<filename> is sent a file only if
\* its content is an upload of that candidate.
C17_OwnFilesOnly ==
    [][\A p \in Procs :
          (pc[p] = "uf_send" /\ pc'[p] = "idle" /\ role(user_id[p]) = "candidate")
          => response'[p].sent \in {0, user_id[p]}]_vars

\* C18: when the swipe handler goes on to train_model after recording a
\* swipe, the field it trains is the job_field of the resume swiped.
C18_RetrainsSwipedField ==
    [][\A p \in Procs :
          (pc[p] = "sw_count" /\ pc'[p] = "tm_fetch")
          => job_field[p] = resumes[resume_id[p]].job_field]_vars

\* C19: the swipes table never holds two swipes of one recruiter on one
\* resume.
C19_OneSwipePerPair ==
    \A i \in DOMAIN swipes, j \in DOMAIN swipes :
        (swipes[i].user_id = swipes[j].user_id /\ swipes[i].resume_id = swipes[j].resume_id)
        => i = j

====
